---- MODULE Spec2Model ----
(***************************************************************************)
(* A model of scripts/parse_tree.py: the conversion of MUI SimpleTreeView  *)
(* markup into a JSON node array or a nested JSON object.                   *)
(*                                                                         *)
(* Text is modelled as a sequence of one-character strings, so that        *)
(* stripping, splitting, lower-casing and number parsing are computed      *)
(* character by character as Python computes them.                         *)
(***************************************************************************)
EXTENDS Integers, Sequences, FiniteSets, TLC

VARIABLES
    dom,      \* the parsed markup: elements and strings in document order
    args,     \* the command line: [output, object]
    pc,       \* position in the run
    tree,     \* the node sequence returned by parse
    out,      \* the JSON document built by main
    stdout,   \* what was printed
    outfile,  \* what was written to args.output
    node,     \* the node returned by parse_li
    raw,      \* the candidate raw value handed to the coercion
    value,    \* the coerced value
    obj       \* the mapping returned by tree_to_object

vars == <<dom, args, pc, tree, out, stdout, outfile, node, raw, value, obj>>

(***************************************************************************)
(* Bounds of the model.                                                    *)
(***************************************************************************)
MaxLen == 4

MaxItem == 5

MaxDoc == 4

MaxFold == 4

(***************************************************************************)
(* Python values: None, bool, int, float, str.  A float is               *)
(* (-1)^neg * n * 10^e with n free of trailing zeros.                      *)
(***************************************************************************)
None == [t |-> "None", b |-> FALSE, neg |-> FALSE, n |-> 0, e |-> 0, s |-> <<>>]

Bool(x) == [None EXCEPT !.t = "bool", !.b = x]

Int_(neg, n) == [None EXCEPT !.t = "int", !.neg = (neg /\ n # 0), !.n = n]

RECURSIVE Float(_, _, _)
Float(neg, n, e) ==
    IF n = 0 THEN [None EXCEPT !.t = "float", !.neg = neg]
    ELSE IF n % 10 = 0 THEN Float(neg, n \div 10, e + 1)
    ELSE [None EXCEPT !.t = "float", !.neg = neg, !.n = n, !.e = e]

Str(s) == [None EXCEPT !.t = "str", !.s = s]

(***************************************************************************)
(* str methods.                                                            *)
(***************************************************************************)
Whitespace == {" ", "\n", "\t"}

Digits == <<"0", "1", "2", "3", "4", "5", "6", "7", "8", "9">>

IsDigit(c) == \E i \in 1..Len(Digits) : Digits[i] = c

DigitVal(c) == (CHOOSE i \in 1..Len(Digits) : Digits[i] = c) - 1

UpperCase ==
    <<"A", "B", "C", "D", "E", "F", "G", "H", "I", "J", "K", "L", "M",
      "N", "O", "P", "Q", "R", "S", "T", "U", "V", "W", "X", "Y", "Z">>

LowerCase ==
    <<"a", "b", "c", "d", "e", "f", "g", "h", "i", "j", "k", "l", "m",
      "n", "o", "p", "q", "r", "s", "t", "u", "v", "w", "x", "y", "z">>

LowerChar(c) ==
    IF \E i \in 1..Len(UpperCase) : UpperCase[i] = c
    THEN LowerCase[CHOOSE i \in 1..Len(UpperCase) : UpperCase[i] = c]
    ELSE c

\* s.lower()
Lower(s) == [i \in 1..Len(s) |-> LowerChar(s[i])]

\* c in s
Contains(s, c) == \E i \in 1..Len(s) : s[i] = c

\* s.find(c) + 1: the first position of c in s, 0 when absent
Find(s, c) ==
    IF Contains(s, c)
    THEN CHOOSE i \in 1..Len(s) : s[i] = c /\ \A j \in 1..(i - 1) : s[j] # c
    ELSE 0

\* s[a-1:b]
Slice(s, a, b) == IF a > b THEN <<>> ELSE SubSeq(s, a, b)

\* s.strip()
Strip(s) ==
    LET keep == {i \in 1..Len(s) : s[i] \notin Whitespace}
    IN  IF keep = {} THEN <<>>
        ELSE LET lo == CHOOSE i \in keep : \A j \in keep : i <= j
                 hi == CHOOSE i \in keep : \A j \in keep : j <= i
             IN  SubSeq(s, lo, hi)

\* ' '.join(parts)
RECURSIVE Join(_)
Join(parts) ==
    IF Len(parts) = 0 THEN <<>>
    ELSE IF Len(parts) = 1 THEN parts[1]
    ELSE parts[1] \o <<" ">> \o Join(Tail(parts))

(***************************************************************************)
(* int(v) and float(v) on a str.  Both strip white space, take an optional *)
(* sign, and accept single underscores between digits; a failure is the    *)
(* ValueError that parse_li catches.  float is called only on text with a  *)
(* dot, which inf, infinity and nan never have.                            *)
(***************************************************************************)
RECURSIVE DigitsValue(_)
DigitsValue(s) ==
    IF Len(s) = 0 THEN 0
    ELSE 10 * DigitsValue(SubSeq(s, 1, Len(s) - 1)) + DigitVal(s[Len(s)])

AllDigits(s) == \A i \in 1..Len(s) : IsDigit(s[i])

\* every underscore stands between two digits
UnderscoresOk(s) ==
    \A i \in 1..Len(s) :
        s[i] = "_" => /\ i > 1 /\ i < Len(s)
                      /\ IsDigit(s[i - 1]) /\ IsDigit(s[i + 1])

NoUnderscores(s) == SelectSeq(s, LAMBDA c : c # "_")

HasSign(s) == Len(s) > 0 /\ s[1] \in {"+", "-"}

Unsigned(s) == IF HasSign(s) THEN Tail(s) ELSE s

ValueError == [ok |-> FALSE, v |-> None]

int(v) ==
    LET t == Strip(v)
        d == Unsigned(t)
        u == NoUnderscores(d)
    IN  IF Len(u) > 0 /\ UnderscoresOk(d) /\ AllDigits(u)
        THEN [ok |-> TRUE, v |-> Int_(HasSign(t) /\ t[1] = "-", DigitsValue(u))]
        ELSE ValueError

float(v) ==
    LET t    == Strip(v)
        d    == Unsigned(t)
        u    == NoUnderscores(d)
        neg  == HasSign(t) /\ t[1] = "-"
        epos == Find(Lower(u), "e")
        mant == IF epos = 0 THEN u ELSE Slice(u, 1, epos - 1)
        expo == IF epos = 0 THEN <<>> ELSE Slice(u, epos + 1, Len(u))
        dot  == Find(mant, ".")
        ip   == IF dot = 0 THEN mant ELSE Slice(mant, 1, dot - 1)
        fp   == IF dot = 0 THEN <<>> ELSE Slice(mant, dot + 1, Len(mant))
        ed   == Unsigned(expo)
        eneg == HasSign(expo) /\ expo[1] = "-"
        ev   == IF eneg THEN 0 - DigitsValue(ed) ELSE DigitsValue(ed)
    IN  IF /\ UnderscoresOk(d)
           /\ AllDigits(ip) /\ AllDigits(fp) /\ Len(ip) + Len(fp) > 0
           /\ (epos # 0 => Len(ed) > 0 /\ AllDigits(ed))
        THEN [ok |-> TRUE, v |-> Float(neg, DigitsValue(ip \o fp), ev - Len(fp))]
        ELSE ValueError

(***************************************************************************)
(* parse_li, lines 79-98: the coercion of a candidate value.               *)
(***************************************************************************)
Quoted(v) ==
    /\ Len(v) >= 2
    /\ \/ (v[1] = "\"" /\ v[Len(v)] = "\"")
       \/ (v[1] = "'" /\ v[Len(v)] = "'")

\* the quote test without the match of the two ends
StripQuotes_unmatched(v) ==
    IF Len(v) >= 2 /\ v[1] \in {"\"", "'"} /\ v[Len(v)] \in {"\"", "'"}
    THEN Slice(v, 2, Len(v) - 1)
    ELSE v

StripQuotes(v) == IF Quoted(v) THEN Slice(v, 2, Len(v) - 1) ELSE v

Coerce(val) ==
    IF val.t # "str" THEN val
    ELSE LET v == StripQuotes(val.s)
         IN  IF Lower(v) = <<"t", "r", "u", "e">> THEN Bool(TRUE)
             ELSE IF Lower(v) = <<"f", "a", "l", "s", "e">> THEN Bool(FALSE)
             ELSE LET r == IF Contains(v, ".") THEN float(v) ELSE int(v)
                  IN  IF r.ok THEN r.v ELSE Str(v)

(***************************************************************************)
(* The BeautifulSoup tree.  dom[i] is the i-th element or string of the    *)
(* markup in document order; parent 0 is the BeautifulSoup object itself.  *)
(* A string (NavigableString) has the name "#text" and no children.        *)
(***************************************************************************)
Tag(name, class, role) ==
    [name |-> name, class |-> class, role |-> role, text |-> <<>>]

NavigableString(s) ==
    [name |-> "#text", class |-> {}, role |-> "", text |-> s]

At(e, p) ==
    [name |-> e.name, class |-> e.class, role |-> e.role, text |-> e.text,
     parent |-> p]

RECURSIVE IsAncestor(_, _)
\* a is a proper ancestor of d
IsAncestor(a, d) ==
    IF d = 0 THEN FALSE
    ELSE dom[d].parent = a \/ IsAncestor(a, dom[d].parent)

\* the descendants of i, in document order
Descendants(i) ==
    SelectSeq([j \in 1..Len(dom) |-> j], LAMBDA j : IsAncestor(i, j))

\* tag.children
Children(i) ==
    SelectSeq([j \in 1..Len(dom) |-> j], LAMBDA j : dom[j].parent = i)

\* the first element of a sequence of positions, 0 (None) when there is none
First(s) == IF Len(s) = 0 THEN 0 ELSE s[1]

HasClass(j, c) == c \in dom[j].class

IsTokenSpan(j) == dom[j].name = "span" /\ HasClass(j, "token")

\* tag.select_one('.MuiTreeItem-label')
SelectLabel(i) ==
    First(SelectSeq(Descendants(i), LAMBDA j : HasClass(j, "MuiTreeItem-label")))

\* tag.select_one('span.token')
SelectToken(i) == First(SelectSeq(Descendants(i), IsTokenSpan))

\* tag.find('ul')
FindUl(i) == First(SelectSeq(Descendants(i), LAMBDA j : dom[j].name = "ul"))

\* tag.find_all('li')
FindAllLi(i) == SelectSeq(Descendants(i), LAMBDA j : dom[j].name = "li")

\* soup.select_one('ul[role="tree"]')
SelectTree ==
    First(SelectSeq(Descendants(0),
                    LAMBDA j : dom[j].name = "ul" /\ dom[j].role = "tree"))

RECURSIVE StrippedStrings(_)
\* the stripped, non-empty texts of a sequence of positions, strings only
StrippedStrings(s) ==
    IF Len(s) = 0 THEN <<>>
    ELSE LET t == Strip(dom[s[1]].text)
         IN  IF dom[s[1]].name = "#text" /\ Len(t) > 0
             THEN <<t>> \o StrippedStrings(Tail(s))
             ELSE StrippedStrings(Tail(s))

\* x.get_text(' ', strip=True), of a tag or of a string
GetText(i) == Join(StrippedStrings(<<i>> \o Descendants(i)))

(***************************************************************************)
(* extract_label                                                           *)
(***************************************************************************)
RECURSIVE LabelParts_keepTokens(_)
\* the loop without the skip of token spans
LabelParts_keepTokens(cs) ==
    IF Len(cs) = 0 THEN <<>>
    ELSE LET txt == GetText(cs[1])
         IN  IF Len(txt) > 0 THEN <<txt>> \o LabelParts_keepTokens(Tail(cs))
             ELSE LabelParts_keepTokens(Tail(cs))

RECURSIVE LabelParts(_)
\* lines 49-60: the texts of the label's children, token spans skipped
LabelParts(cs) ==
    IF Len(cs) = 0 THEN <<>>
    ELSE IF IsTokenSpan(cs[1]) THEN LabelParts(Tail(cs))
    ELSE LET txt == GetText(cs[1])
         IN  IF Len(txt) > 0 THEN <<txt>> \o LabelParts(Tail(cs))
             ELSE LabelParts(Tail(cs))

RECURSIVE Strings(_)
Strings(s) ==
    IF Len(s) = 0 THEN <<>>
    ELSE IF dom[s[1]].name = "#text" THEN <<dom[s[1]].text>> \o Strings(Tail(s))
    ELSE Strings(Tail(s))

\* extract_label with li.get_text(' ') for an item without label region
extract_label_unstripped(li) ==
    LET label_el == SelectLabel(li)
    IN  IF label_el = 0
        THEN [text |-> Join(Strings(Descendants(li))), token |-> None]
        ELSE LET token      == SelectToken(label_el)
                 token_text == IF token # 0 THEN Str(GetText(token)) ELSE None
                 key_text   == Strip(Join(LabelParts(Children(label_el))))
             IN  [text  |-> IF key_text = <<>> THEN GetText(label_el)
                            ELSE key_text,
                  token |-> token_text]

extract_label(li) ==
    LET label_el == SelectLabel(li)
    IN  IF label_el = 0
        THEN [text |-> GetText(li), token |-> None]
        ELSE LET token      == SelectToken(label_el)
                 token_text == IF token # 0 THEN Str(GetText(token)) ELSE None
                 key_text   == Strip(Join(LabelParts(Children(label_el))))
             IN  [text  |-> IF key_text = <<>> THEN GetText(label_el)
                            ELSE key_text,
                  token |-> token_text]

(***************************************************************************)
(* parse_li                                                                *)
(***************************************************************************)
\* the colon split taken even when a token was found
KeyValue_colonFirst(li) ==
    LET l     == extract_label(li)
        colon == Find(l.text, ":")
    IN  IF colon # 0
        THEN LET v == Strip(Slice(l.text, colon + 1, Len(l.text)))
             IN  [key   |-> Strip(Slice(l.text, 1, colon - 1)),
                  value |-> IF Len(v) > 0 THEN Str(v) ELSE None]
        ELSE [key |-> l.text, value |-> l.token]

\* raw.rsplit(':', 1): the split at the last colon
KeyValue_lastColon(li) ==
    LET l     == extract_label(li)
        colon == IF Contains(l.text, ":")
                 THEN CHOOSE i \in 1..Len(l.text) :
                          l.text[i] = ":" /\ \A j \in (i + 1)..Len(l.text) : l.text[j] # ":"
                 ELSE 0
    IN  IF l.token.t = "None" /\ colon # 0
        THEN LET v == Strip(Slice(l.text, colon + 1, Len(l.text)))
             IN  [key   |-> Strip(Slice(l.text, 1, colon - 1)),
                  value |-> IF Len(v) > 0 THEN Str(v) ELSE None]
        ELSE [key |-> l.text, value |-> l.token]

\* value = v, without the "or None"
KeyValue_emptyString(li) ==
    LET l     == extract_label(li)
        colon == Find(l.text, ":")
    IN  IF l.token.t = "None" /\ colon # 0
        THEN [key   |-> Strip(Slice(l.text, 1, colon - 1)),
              value |-> Str(Strip(Slice(l.text, colon + 1, Len(l.text))))]
        ELSE [key |-> l.text, value |-> l.token]

\* lines 69-77: the key and the candidate raw value
KeyValue(li) ==
    LET l     == extract_label(li)
        colon == Find(l.text, ":")
    IN  IF l.token.t = "None" /\ colon # 0
        THEN LET v == Strip(Slice(l.text, colon + 1, Len(l.text)))
             IN  [key   |-> Strip(Slice(l.text, 1, colon - 1)),
                  value |-> IF Len(v) > 0 THEN Str(v) ELSE None]
        ELSE [key |-> l.text, value |-> l.token]

\* the walk that never reports an item on the way
InterveningLi_never(p, child_ul) == FALSE

RECURSIVE InterveningLi(_, _)
\* lines 112-118: the walk from candidate.parent up to child_ul.  Tag
\* equality compares name, attributes and contents; no element strictly
\* inside child_ul has the contents of child_ul, so p != child_ul holds until
\* the walk reaches child_ul itself.
InterveningLi(p, child_ul) ==
    IF p = 0 \/ p = child_ul THEN FALSE
    ELSE IF dom[p].name = "li" THEN TRUE
    ELSE InterveningLi(dom[p].parent, child_ul)

\* lines 103-120: the items parse_li recurses into, in order
ChildItems(li) ==
    LET child_ul == FindUl(li)
    IN  IF child_ul = 0 THEN <<>>
        ELSE SelectSeq(FindAllLi(child_ul),
                       LAMBDA c : ~InterveningLi(dom[c].parent, child_ul))

RECURSIVE parse_li(_)
parse_li(li) ==
    LET kv == KeyValue(li)
        cs == ChildItems(li)
    IN  [key      |-> kv.key,
         value    |-> Coerce(kv.value),
         children |-> [n \in 1..Len(cs) |-> parse_li(cs[n])]]

(***************************************************************************)
(* parse                                                                   *)
(***************************************************************************)
\* lines 133-134: the direct li children of the container that are tree items
RootItems(root) ==
    SelectSeq(Children(root),
              LAMBDA j : dom[j].name = "li" /\ HasClass(j, "MuiTreeItem-root"))

\* parse returning no nodes where it should raise SystemExit
parse_noExit ==
    LET root == SelectTree
    IN  IF root = 0
        THEN [exit |-> FALSE, nodes |-> <<>>]
        ELSE LET items == RootItems(root)
             IN  [exit  |-> FALSE,
                  nodes |-> [n \in 1..Len(items) |-> parse_li(items[n])]]

parse ==
    LET root == SelectTree
    IN  IF root = 0
        THEN [exit |-> TRUE, nodes |-> <<>>]
        ELSE LET items == RootItems(root)
             IN  [exit  |-> FALSE,
                  nodes |-> [n \in 1..Len(items) |-> parse_li(items[n])]]

(***************************************************************************)
(* tree_to_object.  A dict is the sequence of its entries in insertion     *)
(* order; an entry holds a value (leaf) or a nested dict.                  *)
(***************************************************************************)
HasKey(d, k) == \E i \in 1..Len(d) : d[i].key = k

\* d.setdefault(k, e): the first entry of a key is kept
SetItem_first(d, k, e) ==
    IF HasKey(d, k) THEN d ELSE Append(d, [key |-> k, entry |-> e])

\* d[k] = e
SetItem(d, k, e) ==
    IF HasKey(d, k)
    THEN [i \in 1..Len(d) |->
            IF d[i].key = k THEN [key |-> k, entry |-> e] ELSE d[i]]
    ELSE Append(d, [key |-> k, entry |-> e])

Leaf(v) == [leaf |-> TRUE, value |-> v, object |-> <<>>]

Object(d) == [leaf |-> FALSE, value |-> None, object |-> d]

RECURSIVE tree_to_object(_)
RECURSIVE FoldInto(_, _)
\* the loop with the leaf test made on the value instead of the children
FoldInto_byValue(d, nodes) ==
    IF Len(nodes) = 0 THEN d
    ELSE LET n == nodes[1]
             e == IF n.value.t # "None" THEN Leaf(n.value)
                  ELSE Object(tree_to_object(n.children))
         IN  FoldInto(SetItem(d, n.key, e), Tail(nodes))

\* the loop of lines 141-146, continued from dict d over the nodes left
FoldInto(d, nodes) ==
    IF Len(nodes) = 0 THEN d
    ELSE LET n == nodes[1]
             e == IF Len(n.children) = 0 THEN Leaf(n.value)
                  ELSE Object(tree_to_object(n.children))
         IN  FoldInto(SetItem(d, n.key, e), Tail(nodes))

tree_to_object(nodes) == FoldInto(<<>>, nodes)

(***************************************************************************)
(* The markup fed to the parser.  html.parser hands BeautifulSoup the      *)
(* start tags and the text runs in document order: a new element or string *)
(* is appended under the last one or one of its ancestors, never under a   *)
(* string, and two text runs are never adjacent siblings.                  *)
(***************************************************************************)
Open(p) == p = Len(dom) \/ IsAncestor(p, Len(dom))

LastChildIsString(p) ==
    LET cs == Children(p)
    IN  IF Len(cs) = 0 THEN FALSE ELSE dom[cs[Len(cs)]].name = "#text"

CanHold(e, p) ==
    /\ IF p = 0 THEN TRUE ELSE dom[p].name # "#text"
    /\ IF e.name = "#text" THEN ~LastChildIsString(p) ELSE TRUE

Feed(e, p) == dom' = Append(dom, At(e, p))

TreeUl == Tag("ul", {"MuiTreeView-root"}, "tree")

GroupUl == Tag("ul", {"MuiCollapse-root"}, "group")

ItemLi == Tag("li", {"MuiTreeItem-root"}, "treeitem")

PlainLi == Tag("li", {}, "")

Wrapper == Tag("div", {"MuiCollapse-wrapper"}, "")

Label == Tag("div", {"MuiTreeItem-label"}, "")

Token == Tag("span", {"token"}, "")

Texts ==
    { <<"k", ":">>,
      <<"t", "r", "u", "e">>,
      <<"a", ":", "b", ":", "1">>,
      <<" ">>,
      <<" ", "u", ":", " ", "\"", "p", "\"">> }

ItemMarkup ==
    {GroupUl, ItemLi, Wrapper, Label, Token} \cup {NavigableString(s) : s \in Texts}

DocMarkup ==
    {TreeUl, GroupUl, ItemLi, PlainLi, NavigableString(<<"k", ":">>)}

NoNode == [key |-> <<>>, value |-> None, children |-> <<>>]

NoDoc == [form |-> "none", array |-> <<>>, object |-> <<>>]

(***************************************************************************)
(* SpecItem: parse_li applied to one item and the markup below it.         *)
(***************************************************************************)
InitItem ==
    /\ dom = <<At(ItemLi, 0)>>
    /\ args = [output |-> "", object |-> FALSE]
    /\ pc = "item"
    /\ tree = <<>>
    /\ out = NoDoc
    /\ stdout = <<>>
    /\ outfile = <<>>
    /\ node = NoNode
    /\ raw = None
    /\ value = None
    /\ obj = <<>>

FeedItem ==
    /\ pc = "item"
    /\ Len(dom) < MaxItem
    /\ \E e \in ItemMarkup, p \in 1..Len(dom) :
           Open(p) /\ CanHold(e, p) /\ Feed(e, p)
    /\ UNCHANGED <<args, pc, tree, out, stdout, outfile, node, raw, value, obj>>

ParseItem ==
    /\ pc = "item"
    /\ node' = parse_li(1)
    /\ pc' = "node"
    /\ UNCHANGED <<dom, args, tree, out, stdout, outfile, raw, value, obj>>

NextItem == FeedItem \/ ParseItem

SpecItem == InitItem /\ [][NextItem]_vars

(***************************************************************************)
(* Spec: main.  The markup is read, parsed, dumped and written.  A JSON    *)
(* document is modelled by the structure json.dumps serialises.            *)
(***************************************************************************)
OutputPaths == {"", "tree.json", "tree.txt"}

EndsWithJson(path) == path = "tree.json"

Init ==
    /\ dom = <<>>
    /\ args \in [output : OutputPaths, object : BOOLEAN]
    /\ pc = "read"
    /\ tree = <<>>
    /\ out = NoDoc
    /\ stdout = <<>>
    /\ outfile = <<>>
    /\ node = NoNode
    /\ raw = None
    /\ value = None
    /\ obj = <<>>

\* lines 161-165 and 126: the markup text becomes the soup
ReadHtml ==
    /\ pc = "read"
    /\ Len(dom) < MaxDoc
    /\ \E e \in DocMarkup, p \in 0..Len(dom) :
           Open(p) /\ CanHold(e, p) /\ Feed(e, p)
    /\ UNCHANGED <<args, pc, tree, out, stdout, outfile, node, raw, value, obj>>

\* line 167, parse raising SystemExit: the process ends
ParseExit ==
    /\ pc = "read"
    /\ parse.exit
    /\ pc' = "exit"
    /\ UNCHANGED <<dom, args, tree, out, stdout, outfile, node, raw, value, obj>>

\* line 167, parse returning
ParseReturn ==
    /\ pc = "read"
    /\ ~parse.exit
    /\ tree' = parse.nodes
    /\ pc' = "parsed"
    /\ UNCHANGED <<dom, args, out, stdout, outfile, node, raw, value, obj>>

\* lines 168-175
Dump ==
    /\ pc = "parsed"
    /\ IF args.output # "" /\ EndsWithJson(args.output) /\ args.object
       THEN /\ obj' = tree_to_object(tree)
            /\ out' = [form |-> "object", array |-> <<>>, object |-> obj']
       ELSE IF args.object
       THEN /\ obj' = tree_to_object(tree)
            /\ out' = [form |-> "object", array |-> <<>>, object |-> obj']
       ELSE /\ obj' = obj
            /\ out' = [form |-> "array", array |-> tree, object |-> <<>>]
    /\ pc' = "dumped"
    /\ UNCHANGED <<dom, args, tree, stdout, outfile, node, raw, value>>

\* lines 177-179
WriteFile ==
    /\ pc = "dumped"
    /\ args.output # ""
    /\ outfile' = <<out, "\n">>
    /\ pc' = "done"
    /\ UNCHANGED <<dom, args, tree, out, stdout, node, raw, value, obj>>

\* lines 180-181
PrintOut ==
    /\ pc = "dumped"
    /\ args.output = ""
    /\ stdout' = <<out, "\n">>
    /\ pc' = "done"
    /\ UNCHANGED <<dom, args, tree, out, outfile, node, raw, value, obj>>

Next == ReadHtml \/ ParseExit \/ ParseReturn \/ Dump \/ WriteFile \/ PrintOut

Spec == Init /\ [][Next]_vars

(***************************************************************************)
(* SpecCoerce: the coercion of parse_li applied to a candidate raw value,  *)
(* typed one character at a time.                                          *)
(***************************************************************************)
Alphabet == {"\"", "'", "1", "0", ".", " ", "-", "_", "e", "T"}

Samples ==
    { <<"t", "r", "u", "e">>,
      <<"T", "r", "U", "e">>,
      <<"F", "A", "L", "S", "E">>,
      <<"\"", "t", "r", "u", "e", "\"">>,
      <<"4", "2">>,
      <<"\"", "4", "2", "\"">>,
      <<"3", ".", "1", "4">>,
      <<"\"", "p", "x", "\"">>,
      <<"'", "p", "x", "'">>,
      <<"\"", "'", "p", "x", "'", "\"">>,
      <<"1", ".", "5", "e", "-", "3">>,
      <<"1", ".", "2", ".", "3">> }

InitCoerce ==
    /\ dom = <<>>
    /\ args = [output |-> "", object |-> FALSE]
    /\ pc = "candidate"
    /\ tree = <<>>
    /\ out = NoDoc
    /\ stdout = <<>>
    /\ outfile = <<>>
    /\ node = NoNode
    /\ raw \in {None, Str(<<>>)} \cup {Str(s) : s \in Samples}
    /\ value = None
    /\ obj = <<>>

TypeChar ==
    /\ pc = "candidate"
    /\ raw.t = "str"
    /\ Len(raw.s) < MaxLen
    /\ \E c \in Alphabet : raw' = Str(Append(raw.s, c))
    /\ UNCHANGED <<dom, args, pc, tree, out, stdout, outfile, node, value, obj>>

CoerceValue ==
    /\ pc = "candidate"
    /\ value' = Coerce(raw)
    /\ pc' = "coerced"
    /\ UNCHANGED <<dom, args, tree, out, stdout, outfile, node, raw, obj>>

NextCoerce == TypeChar \/ CoerceValue

SpecCoerce == InitCoerce /\ [][NextCoerce]_vars

(***************************************************************************)
(* SpecFold: tree_to_object applied to a node sequence, grown one node at  *)
(* a time at the end of the sequence or of the children of a last node.    *)
(***************************************************************************)
RECURSIVE Size(_)
Size(nodes) ==
    IF Len(nodes) = 0 THEN 0
    ELSE 1 + Size(nodes[1].children) + Size(Tail(nodes))

RECURSIVE Depth(_)
\* how deep the chain of last nodes goes
Depth(nodes) ==
    IF Len(nodes) = 0 THEN 0 ELSE 1 + Depth(nodes[Len(nodes)].children)

RECURSIVE AppendAt(_, _, _)
AppendAt(nodes, d, n) ==
    IF d = 0 THEN Append(nodes, n)
    ELSE [nodes EXCEPT ![Len(nodes)].children = AppendAt(@, d - 1, n)]

\* the (key, value) pairs the nodes are drawn from
Labels ==
    { <<<<"a">>, Int_(FALSE, 1)>>,
      <<<<"a">>, Int_(FALSE, 2)>>,
      <<<<"b">>, None>>,
      <<<<"b">>, Int_(FALSE, 1)>>,
      <<<<"c">>, Int_(FALSE, 2)>> }

InitFold ==
    /\ dom = <<>>
    /\ args = [output |-> "", object |-> TRUE]
    /\ pc = "nodes"
    /\ tree = <<>>
    /\ out = NoDoc
    /\ stdout = <<>>
    /\ outfile = <<>>
    /\ node = NoNode
    /\ raw = None
    /\ value = None
    /\ obj = <<>>

AddNode ==
    /\ pc = "nodes"
    /\ Size(tree) < MaxFold
    /\ \E l \in Labels, d \in 0..Depth(tree) :
           tree' = AppendAt(tree, d,
                            [key |-> l[1], value |-> l[2], children |-> <<>>])
    /\ UNCHANGED <<dom, args, pc, out, stdout, outfile, node, raw, value, obj>>

Fold ==
    /\ pc = "nodes"
    /\ obj' = tree_to_object(tree)
    /\ pc' = "folded"
    /\ UNCHANGED <<dom, args, tree, out, stdout, outfile, node, raw, value>>

NextFold == AddNode \/ Fold

SpecFold == InitFold /\ [][NextFold]_vars

(***************************************************************************)
(* Vocabulary of the properties: the markup described by position, without *)
(* the search operators of the model.                                      *)
(***************************************************************************)
Least(S) == IF S = {} THEN 0 ELSE CHOOSE i \in S : \A j \in S : i <= j

Positions == 1..Len(dom)

Ordered(S) == SelectSeq([j \in Positions |-> j], LAMBDA j : j \in S)

Items == {i \in Positions : dom[i].name = "li"}

\* the label region of item i, 0 when it has none
LabelRegion(i) ==
    Least({j \in Positions : IsAncestor(i, j) /\ "MuiTreeItem-label" \in dom[j].class})

\* the inline token of label region l, 0 when it has none
InlineToken(l) ==
    Least({j \in Positions :
              IsAncestor(l, j) /\ dom[j].name = "span" /\ "token" \in dom[j].class})

\* the first nested list of item i, 0 when it has none
FirstList(i) == Least({j \in Positions : IsAncestor(i, j) /\ dom[j].name = "ul"})

\* some item lies strictly between list u and its descendant e
ItemBetween(u, e) == \E m \in Items : IsAncestor(u, m) /\ IsAncestor(m, e)

\* the items of the first nested list of i with no item between
OwnItems(i) ==
    LET u == FirstList(i)
    IN  IF u = 0 THEN {}
        ELSE {e \in Items : IsAncestor(u, e) /\ ~ItemBetween(u, e)}

FirstColon(s) == Least({i \in 1..Len(s) : s[i] = ":"})

BeforeColon(s) == Strip(Slice(s, 1, FirstColon(s) - 1))

AfterColon(s) == Strip(Slice(s, FirstColon(s) + 1, Len(s)))

\* the value a text with a colon gives
SplitValue(s) == IF AfterColon(s) = <<>> THEN None ELSE Coerce(Str(AfterColon(s)))

Parsed == pc = "node"

(***************************************************************************)
(* C2: the children of a node are exactly the items of the item's first    *)
(* nested list that have no other item between them and that list, in     *)
(* document order, each parsed recursively; an item below one of those     *)
(* children is never a child of the shallower item, and no item is the     *)
(* child of two nodes.                                                     *)
(***************************************************************************)
RECURSIVE C2_Agrees(_, _)
C2_Agrees(n, i) ==
    LET own == Ordered(OwnItems(i))
    IN  /\ n.key = KeyValue(i).key
        /\ IF Len(n.children) # Len(own) THEN FALSE
           ELSE \A k \in 1..Len(own) : C2_Agrees(n.children[k], own[k])

RECURSIVE C2_Reached(_)
\* the items that become nodes under item i, i included
C2_Reached(i) == {i} \cup UNION {C2_Reached(e) : e \in OwnItems(i)}

C2_DeeperExcluded ==
    \A i \in Items : \A k \in 1..Len(ChildItems(i)) : \A e \in Items :
        IsAncestor(ChildItems(i)[k], e) =>
            \A m \in 1..Len(ChildItems(i)) : ChildItems(i)[m] # e

C2_NoItemTwice ==
    \A i, j \in C2_Reached(1) : i # j => OwnItems(i) \cap OwnItems(j) = {}

C2_ChildrenAreOwnItems ==
    Parsed => C2_Agrees(node, 1) /\ C2_DeeperExcluded /\ C2_NoItemTwice

\* an item with a child that has a child of its own
C2_Witness ==
    /\ Parsed
    /\ Len(node.children) = 1
    /\ Len(node.children[1].children) = 1
    /\ Cardinality(Items) = 3

(***************************************************************************)
(* C4: when the label region of an item holds an inline token, the node's  *)
(* value is the coerced text of that token, whatever colon text the label  *)
(* holds; a token holding true gives the boolean true.                     *)
(***************************************************************************)
C4_TokenValueWins ==
    Parsed /\ LabelRegion(1) # 0 /\ InlineToken(LabelRegion(1)) # 0 =>
        LET text == GetText(InlineToken(LabelRegion(1)))
        IN  /\ node.value = Coerce(Str(text))
            /\ text = <<"t", "r", "u", "e">> => node.value = Bool(TRUE)

\* a label reading k: followed by a token holding true
C4_Witness ==
    /\ Parsed
    /\ LabelRegion(1) # 0
    /\ InlineToken(LabelRegion(1)) # 0
    /\ GetText(InlineToken(LabelRegion(1))) = <<"t", "r", "u", "e">>
    /\ FirstColon(GetText(LabelRegion(1))) # 0
    /\ node.value = Bool(TRUE)

(***************************************************************************)
(* C5: when the label region holds no inline token and its text has a      *)
(* colon, the text is split at the first colon only: the trimmed text      *)
(* before it is the key, the trimmed text after it the candidate value,    *)
(* null when empty; a leaf labelled  u: "p"  gives key u, value p and no   *)
(* children.                                                               *)
(***************************************************************************)
C5_SplitOnFirstColon ==
    Parsed /\ LabelRegion(1) # 0 /\ InlineToken(LabelRegion(1)) = 0
           /\ FirstColon(GetText(LabelRegion(1))) # 0 =>
        LET text == GetText(LabelRegion(1))
        IN  /\ node.key = BeforeColon(text)
            /\ node.value = SplitValue(text)
            /\ AfterColon(text) = <<>> => node.value = None
            /\ (text = <<"u", ":", " ", "\"", "p", "\"">> /\ Len(dom) = 3) =>
                   node = [key |-> <<"u">>, value |-> Str(<<"p">>),
                           children |-> <<>>]

\* the leaf labelled  u: "p"
C5_Witness ==
    /\ Parsed
    /\ LabelRegion(1) # 0
    /\ InlineToken(LabelRegion(1)) = 0
    /\ node = [key |-> <<"u">>, value |-> Str(<<"p">>), children |-> <<>>]

\* a label whose text has two colons
C5_WitnessTwoColons ==
    /\ Parsed
    /\ LabelRegion(1) # 0
    /\ node.key = <<"a">>
    /\ node.value = Str(<<"b", ":", "1">>)

(***************************************************************************)
(* C7 as stated: every node, at any depth, has a non-null value or a       *)
(* non-empty children sequence.                                            *)
(***************************************************************************)
RECURSIVE C7_ValueOrChildren(_)
C7_ValueOrChildren(n) ==
    /\ n.value.t # "None" \/ Len(n.children) > 0
    /\ \A k \in 1..Len(n.children) : C7_ValueOrChildren(n.children[k])

C7_Original == Parsed => C7_ValueOrChildren(node)

(***************************************************************************)
(* C7 as amended: every node, at any depth, has a non-null value or a      *)
(* non-empty children sequence, unless its item has no inline token in its *)
(* label region, no text after a first colon in the text extract_label     *)
(* returns for it, and no item of its own in its first nested list: such   *)
(* a node has a null value and no children.  A node may also have both.    *)
(***************************************************************************)
C7_HasValue(i) ==
    \/ LabelRegion(i) # 0 /\ InlineToken(LabelRegion(i)) # 0
    \/ LET text == extract_label(i).text
       IN  FirstColon(text) # 0 /\ AfterColon(text) # <<>>

RECURSIVE C7_Accounted(_, _)
C7_Accounted(n, i) ==
    LET own == Ordered(OwnItems(i))
    IN  /\ n.value.t # "None" <=> C7_HasValue(i)
        /\ Len(n.children) > 0 <=> OwnItems(i) # {}
        /\ IF Len(n.children) # Len(own) THEN FALSE
           ELSE \A k \in 1..Len(own) : C7_Accounted(n.children[k], own[k])

C7_Amended == Parsed => C7_Accounted(node, 1)

\* a node with a value and a child, the child with neither
C7_Witness ==
    /\ Parsed
    /\ node.value.t # "None"
    /\ Len(node.children) = 1
    /\ node.children[1].value.t = "None"
    /\ node.children[1].children = <<>>

(***************************************************************************)
(* C8 as stated: an item with no label region gives a node whose key is    *)
(* the item's full flattened text and whose value is null.                 *)
(***************************************************************************)
C8_Original ==
    Parsed /\ LabelRegion(1) = 0 => node.key = GetText(1) /\ node.value = None

(***************************************************************************)
(* C8 as amended: an item with no label region gives a node whose key is   *)
(* the item's full flattened text and whose value is null when that text   *)
(* has no colon; when it has one, the text is split at its first colon as  *)
(* a label text is.                                                        *)
(***************************************************************************)
C8_Amended ==
    Parsed /\ LabelRegion(1) = 0 =>
        LET text == GetText(1)
        IN  IF FirstColon(text) = 0
            THEN node.key = text /\ node.value = None
            ELSE node.key = BeforeColon(text) /\ node.value = SplitValue(text)

\* an item with no label region whose text is split at a colon
C8_Witness ==
    /\ Parsed
    /\ LabelRegion(1) = 0
    /\ FirstColon(GetText(1)) # 0
    /\ node.value.t # "None"
    /\ node.key # GetText(1)

(***************************************************************************)
(* C10: when the label region holds an inline token, the key is the label  *)
(* text without the label's direct-child token elements and is not split   *)
(* at a colon; when that leaves no text the key is the whole label text,   *)
(* the token text included.                                                *)
(***************************************************************************)
\* position j lies in a token element that is a direct child of label l
C10_InDirectToken(l, j) ==
    \E c \in Positions :
        /\ dom[c].parent = l /\ dom[c].name = "span" /\ "token" \in dom[c].class
        /\ (c = j \/ IsAncestor(c, j))

C10_TextWithoutTokens(l) ==
    Join(StrippedStrings(Ordered({j \in Positions :
            IsAncestor(l, j) /\ ~C10_InDirectToken(l, j)})))

C10_KeyKeepsColon ==
    Parsed /\ LabelRegion(1) # 0 /\ InlineToken(LabelRegion(1)) # 0 =>
        LET rest == C10_TextWithoutTokens(LabelRegion(1))
        IN  /\ rest # <<>> => node.key = rest
            /\ rest = <<>> => node.key = GetText(LabelRegion(1))

\* a label reading k: followed by a token: the key ends in the colon
C10_Witness ==
    /\ Parsed
    /\ LabelRegion(1) # 0
    /\ InlineToken(LabelRegion(1)) # 0
    /\ dom[InlineToken(LabelRegion(1))].parent = LabelRegion(1)
    /\ node.key = <<"k", ":">>

\* a label holding only a token: the key is the token text
C10_WitnessOnlyToken ==
    /\ Parsed
    /\ LabelRegion(1) # 0
    /\ InlineToken(LabelRegion(1)) # 0
    /\ C10_TextWithoutTokens(LabelRegion(1)) = <<>>
    /\ node.key = <<"t", "r", "u", "e">>

(***************************************************************************)
(* C1: when the markup holds no <ul role="tree">, parse ends the run and   *)
(* nothing is written to the output file or printed, in array and in       *)
(* object mode.                                                            *)
(***************************************************************************)
NoTreeContainer ==
    \A i \in Positions : ~(dom[i].name = "ul" /\ dom[i].role = "tree")

C1_NoContainerNoOutput ==
    NoTreeContainer =>
        /\ pc \in {"read", "exit"}
        /\ stdout = <<>>
        /\ outfile = <<>>
        /\ out = NoDoc

\* the run ended on markup with lists and items but no tree container
C1_Witness ==
    /\ pc = "exit"
    /\ NoTreeContainer
    /\ \E i, j \in Positions : dom[i].name = "ul" /\ dom[j].name = "li"
    /\ args.object
    /\ args.output # ""

\* the same in array mode, printing to standard output
C1_WitnessArray ==
    /\ pc = "exit"
    /\ NoTreeContainer
    /\ Len(dom) > 0
    /\ ~args.object
    /\ args.output = ""

(***************************************************************************)
(* C6: the coercion of a string never fails and follows a fixed priority:  *)
(* one layer of matching surrounding quotes is stripped; true and false in *)
(* any letter case become booleans; otherwise text with a dot becomes a    *)
(* float or stays a string, other text becomes an integer or stays a       *)
(* string, and the string kept is the quote-stripped one.                  *)
(***************************************************************************)
C6_Cleaned(s) ==
    IF Len(s) >= 2 /\ s[1] = s[Len(s)] /\ s[1] \in {"\"", "'"}
    THEN Slice(s, 2, Len(s) - 1)
    ELSE s

C6_IntChars == {Digits[i] : i \in 1..Len(Digits)} \cup {"+", "-", "_"} \cup Whitespace

C6_FloatChars == C6_IntChars \cup {".", "e", "E"}

C6_Is(s, word) ==
    /\ Len(s) = Len(word)
    /\ \A i \in 1..Len(s) : s[i] = word[i] \/ LowerChar(s[i]) = word[i]

C6_Examples ==
    /\ raw = Str(<<"4", "2">>) => value = Int_(FALSE, 42)
    /\ raw = Str(<<"\"", "4", "2", "\"">>) => value = Int_(FALSE, 42)
    /\ raw = Str(<<"3", ".", "1", "4">>) => value = Float(FALSE, 314, 0 - 2)
    /\ raw = Str(<<"\"", "p", "x", "\"">>) => value = Str(<<"p", "x">>)
    /\ raw = Str(<<"'", "p", "x", "'">>) => value = Str(<<"p", "x">>)
    /\ raw = Str(<<"\"", "'", "p", "x", "'", "\"">>)
           => value = Str(<<"'", "p", "x", "'">>)
    /\ raw = Str(<<"T", "r", "U", "e">>) => value = Bool(TRUE)
    /\ raw = Str(<<"F", "A", "L", "S", "E">>) => value = Bool(FALSE)

C6_CoercionPriority ==
    pc = "coerced" /\ raw.t = "str" =>
        LET c == C6_Cleaned(raw.s)
        IN  /\ value.t \in {"bool", "int", "float", "str"}
            /\ C6_Is(c, <<"t", "r", "u", "e">>) => value = Bool(TRUE)
            /\ C6_Is(c, <<"f", "a", "l", "s", "e">>) => value = Bool(FALSE)
            /\ value.t = "bool" =>
                   \/ C6_Is(c, <<"t", "r", "u", "e">>)
                   \/ C6_Is(c, <<"f", "a", "l", "s", "e">>)
            /\ value.t = "float" =>
                   /\ \E i \in 1..Len(c) : c[i] = "."
                   /\ \A i \in 1..Len(c) : c[i] \in C6_FloatChars
            /\ value.t = "int" =>
                   /\ \A i \in 1..Len(c) : c[i] \in C6_IntChars
                   /\ \E i \in 1..Len(c) : IsDigit(c[i])
            /\ value.t = "str" => value.s = c
            /\ (Len(c) > 0 /\ AllDigits(c)) => value = Int_(FALSE, DigitsValue(c))
            /\ C6_Examples

\* a quoted number was coerced
C6_Witness ==
    /\ pc = "coerced"
    /\ raw = Str(<<"\"", "4", "2", "\"">>)
    /\ value = Int_(FALSE, 42)

\* a failed numeric coercion kept the quote-stripped string
C6_WitnessFallback ==
    /\ pc = "coerced"
    /\ raw = Str(<<"'", ".", "'">>)
    /\ value = Str(<<".">>)

(***************************************************************************)
(* C3 as amended: tree_to_object succeeds on every node sequence, the      *)
(* empty one included; the mapping has the keys of the nodes, and a node    *)
(* that is the last of its sequence with its key maps that key to its      *)
(* value when it has no children and to the mapping of its children,       *)
(* recursively, when it has some.                                          *)
(***************************************************************************)
Folded == pc = "folded"

KeysOf(nodes) == {nodes[i].key : i \in 1..Len(nodes)}

\* the entries of mapping d under key k
EntriesOf(d, k) == {i \in 1..Len(d) : d[i].key = k}

\* node i is the last of its sequence with its key
LastOfKey(nodes, i) == \A j \in (i + 1)..Len(nodes) : nodes[j].key # nodes[i].key

RECURSIVE C3_Maps(_, _)
C3_Maps(nodes, d) ==
    /\ KeysOf(d) = KeysOf(nodes)
    /\ \A i \in 1..Len(nodes) :
           LastOfKey(nodes, i) =>
               \A x \in EntriesOf(d, nodes[i].key) :
                   IF nodes[i].children = <<>>
                   THEN d[x].entry.leaf /\ d[x].entry.value = nodes[i].value
                   ELSE /\ ~d[x].entry.leaf
                        /\ C3_Maps(nodes[i].children, d[x].entry.object)

C3_ExampleNodes ==
    << [key |-> <<"a">>, value |-> Int_(FALSE, 1), children |-> <<>>],
       [key |-> <<"b">>, value |-> None,
        children |-> << [key |-> <<"c">>, value |-> Int_(FALSE, 2),
                         children |-> <<>>] >>] >>

C3_ExampleObject ==
    << [key |-> <<"a">>, entry |-> Leaf(Int_(FALSE, 1))],
       [key |-> <<"b">>,
        entry |-> Object(<< [key |-> <<"c">>, entry |-> Leaf(Int_(FALSE, 2))] >>)] >>

C3_FoldContract ==
    Folded =>
        /\ C3_Maps(tree, obj)
        /\ tree = <<>> => obj = <<>>
        /\ tree = C3_ExampleNodes => obj = C3_ExampleObject

(***************************************************************************)
(* C3 as stated: every node of the sequence, whatever nodes follow it, has *)
(* its key mapped to its value or to the mapping of its children.          *)
(***************************************************************************)
RECURSIVE C3_EveryNodeMapped(_, _)
C3_EveryNodeMapped(nodes, d) ==
    \A i \in 1..Len(nodes) :
        \E x \in EntriesOf(d, nodes[i].key) :
            IF nodes[i].children = <<>>
            THEN d[x].entry.leaf /\ d[x].entry.value = nodes[i].value
            ELSE /\ ~d[x].entry.leaf
                 /\ C3_EveryNodeMapped(nodes[i].children, d[x].entry.object)

C3_Original == Folded => C3_EveryNodeMapped(tree, obj)

\* the example of the specification was folded
C3_Witness == Folded /\ tree = C3_ExampleNodes /\ obj = C3_ExampleObject

(***************************************************************************)
(* C9: when several nodes of one sequence share a key, the mapping holds   *)
(* one entry for that key, the entry of the last such node, leaf or not.   *)
(***************************************************************************)
\* entry e is the one node n gives
C9_EntryOf(e, n) ==
    IF n.children = <<>> THEN e.leaf /\ e.value = n.value
    ELSE ~e.leaf /\ KeysOf(e.object) = KeysOf(n.children)

RECURSIVE C9_LastWins(_, _)
C9_LastWins(nodes, d) ==
    \A i, j \in 1..Len(nodes) :
        (i < j /\ nodes[i].key = nodes[j].key /\ LastOfKey(nodes, j)) =>
            /\ Cardinality(EntriesOf(d, nodes[j].key)) = 1
            /\ \A x \in EntriesOf(d, nodes[j].key) :
                   /\ C9_EntryOf(d[x].entry, nodes[j])
                   /\ ~d[x].entry.leaf =>
                          C9_LastWins(nodes[j].children, d[x].entry.object)

C9_LastKeyWins == Folded => C9_LastWins(tree, obj) /\ Len(obj) = Cardinality(KeysOf(tree))

\* a leaf and a later node with children share a key: the leaf's value is lost
C9_Witness ==
    /\ Folded
    /\ Len(tree) = 2
    /\ tree[1].key = tree[2].key
    /\ tree[1].children = <<>>
    /\ tree[1].value.t = "int"
    /\ tree[2].children # <<>>
    /\ Len(obj) = 1
    /\ ~obj[1].entry.leaf

====
